---- MODULE Spec2Model ----
(***************************************************************************)
(* Model of the four benchmark report scripts under src/tools:             *)
(*   plot_datetime_bench.py, plot_duckdb_write_bench.py,                   *)
(*   plot_sqllog_bench.py and plot_sqllog_varied.py.                       *)
(*                                                                         *)
(* Each script is a sequential batch program: check the results root,      *)
(* locate a result file per case, extract a point estimate, normalise      *)
(* its unit, collect a series, render and save a chart.                    *)
(*                                                                         *)
(* The Criterion result tree is read-only for the scripts and every path   *)
(* is inspected at most once per run, so the content of a path is drawn    *)
(* when the script first inspects it and is recorded in fs.                *)
(***************************************************************************)
EXTENDS Integers, Sequences, FiniteSets, TLC

VARIABLES
    script,     \* which of the four scripts is running
    fs,         \* the part of the result tree the run has inspected so far
    pc,         \* position of the run in the script
    todo,       \* remaining items of the loop in progress
    groups,     \* plot_sqllog_varied: groups still to be handled
    p,          \* the located result file (variables p / path / est)
    data,       \* the parsed document
    median,     \* the extracted point estimate, or None
    t,          \* the float value being normalised
    results,    \* the collected series (dict results; sizes/vals in varied)
    console,    \* lines written to stdout / stderr, in order
    out_dir,    \* TRUE once out_dir.mkdir has been called
    chart,      \* the series handed to plt.bar / plt.plot, in call order
    images,     \* names of the images written by plt.savefig
    status      \* "running", "ok" (normal end) or "fail" (non-zero exit)

vars == <<script, fs, pc, todo, groups, p, data, median, t, results,
          console, out_dir, chart, images, status>>

(***************************************************************************)
(* Bounds of the model.                                                    *)
(***************************************************************************)
\* largest decimal exponent of a raw timing value
MaxExp == 13
\* largest number of top-level keys of a result document
MaxKeys == 3
\* largest number of entries of a listed directory
MaxEntries == 3
\* largest number of result files under one group directory
MaxFiles == 2

(***************************************************************************)
(* Python values.  None doubles as JSON null.  A number is the decimal     *)
(* m * 10^e with m not divisible by 10 (0 is m = 0, e = 0), which keeps    *)
(* 2500000000 and 0.0042 exact within TLC's 32-bit integers.               *)
(***************************************************************************)
None == [kind |-> "None"]

RECURSIVE Num(_, _)
Num(m, e) ==
    IF m = 0 THEN [kind |-> "num", m |-> 0, e |-> 0]
    ELSE IF m % 10 = 0 THEN Num(m \div 10, e + 1)
    ELSE [kind |-> "num", m |-> m, e |-> e]

\* no result path located yet
NoPath == <<>>

\* a JSON string that float() rejects
BadStr == [kind |-> "str"]

IsNum(v) == v.kind = "num"

RECURSIVE Pow10(_)
Pow10(n) == IF n = 0 THEN 1 ELSE 10 * Pow10(n - 1)

\* v > 10^k for a number v.  A mantissa is below 2^31 < 10^10, so for
\* k - e >= 10 the comparison is false without computing the power.
Gt10(v, k) ==
    IF v.m <= 0 THEN FALSE
    ELSE IF v.e >= k THEN v.m > 1 \/ v.e > k
    ELSE IF k - v.e >= 10 THEN FALSE
    ELSE v.m > Pow10(k - v.e)

\* v / 10^k
Div10(v, k) == IF v.m = 0 THEN v ELSE [v EXCEPT !.e = v.e - k]

(***************************************************************************)
(* The unit normaliser, one definition per copy in the source.             *)
(***************************************************************************)
\* NormaliseDatetime with the nanosecond branch dividing by 1e6
NormaliseDatetimeMicro(v) ==
    IF Gt10(v, 6) THEN Div10(v, 6)
    ELSE IF Gt10(v, 3) THEN Div10(v, 6)
    ELSE v

\* plot_datetime_bench.py 38-42
NormaliseDatetime(v) ==
    IF Gt10(v, 6) THEN Div10(v, 9)
    ELSE IF Gt10(v, 3) THEN Div10(v, 6)
    ELSE v

\* plot_sqllog_bench.py 32-36
NormaliseSqllog(v) ==
    IF Gt10(v, 6) THEN Div10(v, 9)
    ELSE IF Gt10(v, 3) THEN Div10(v, 6)
    ELSE v

\* plot_sqllog_varied.py 38-42
NormaliseVaried(v) ==
    IF Gt10(v, 6) THEN Div10(v, 9)
    ELSE IF Gt10(v, 3) THEN Div10(v, 6)
    ELSE v

\* NormaliseStored with >= in place of > at both thresholds
NormaliseStoredInclusive(d) ==
    [s \in DOMAIN d |->
        IF Gt10(d[s], 6) \/ d[s] = Num(1, 6) THEN Div10(d[s], 9)
        ELSE IF Gt10(d[s], 3) \/ d[s] = Num(1, 3) THEN Div10(d[s], 6)
        ELSE d[s]]

\* plot_duckdb_write_bench.py 48-54: the second pass over one mode's
\* dict; every stored value is rewritten at most once
NormaliseStored(d) ==
    [s \in DOMAIN d |->
        IF Gt10(d[s], 6) THEN Div10(d[s], 9)
        ELSE IF Gt10(d[s], 3) THEN Div10(d[s], 6)
        ELSE d[s]]

(***************************************************************************)
(* JSON documents.  A dict is the sequence of its <<key, value>> items in  *)
(* insertion order; anything else that parses is a non-dict value.         *)
(***************************************************************************)
Dict(items) == [kind |-> "dict", items |-> items]
JList == [kind |-> "list"]

IsDict(v) == v.kind = "dict"

\* k in d
Has(d, k) == \E i \in 1..Len(d.items) : d.items[i][1] = k

\* d[k], for k in d
Get(d, k) == d.items[CHOOSE i \in 1..Len(d.items) : d.items[i][1] = k][2]

\* d.get(k)
DictGet(d, k) == IF Has(d, k) THEN Get(d, k) ELSE None

\* for v in data.values(): the first dict holding 'point_estimate'
RECURSIVE ScanValues(_)
ScanValues(items) ==
    IF items = <<>> THEN None
    ELSE LET v == Head(items)[2] IN
         IF IsDict(v) /\ Has(v, "point_estimate")
         THEN Get(v, "point_estimate")
         ELSE ScanValues(Tail(items))

\* the extraction block (the same statements in all four scripts)
ExtractEstimate(d) ==
    IF ~IsDict(d) THEN None
    ELSE IF Has(d, "median") /\ IsDict(Get(d, "median"))
         THEN DictGet(Get(d, "median"), "point_estimate")
    ELSE IF Has(d, "mean") /\ IsDict(Get(d, "mean"))
         THEN DictGet(Get(d, "mean"), "point_estimate")
    ELSE ScanValues(d.items)

(***************************************************************************)
(* Directory names.  A name is the sequence of its characters; Python      *)
(* orders strings by code point.                                           *)
(***************************************************************************)
Ord == ("0" :> 48) @@ ("1" :> 49) @@ ("2" :> 50) @@ ("a" :> 97) @@
       ("e" :> 101) @@ ("o" :> 111) @@ ("p" :> 112) @@ ("r" :> 114) @@
       ("t" :> 116)

Digit == ("0" :> 0) @@ ("1" :> 1) @@ ("2" :> 2)

\* a < b on str
RECURSIVE StrLess(_, _)
StrLess(a, b) ==
    IF b = <<>> THEN FALSE
    ELSE IF a = <<>> THEN TRUE
    ELSE IF Ord[Head(a)] # Ord[Head(b)] THEN Ord[Head(a)] < Ord[Head(b)]
    ELSE StrLess(Tail(a), Tail(b))

\* list.sort() / sorted(..., key=lambda p: p.name) on distinct names
RECURSIVE SortedNames(_)
SortedNames(S) ==
    IF S = {} THEN <<>>
    ELSE LET least == CHOOSE x \in S : \A y \in S \ {x} : StrLess(x, y)
         IN  <<least>> \o SortedNames(S \ {least})

\* sorted(...) on distinct integers
RECURSIVE SortedInts(_)
SortedInts(S) ==
    IF S = {} THEN <<>>
    ELSE LET least == CHOOSE x \in S : \A y \in S : x <= y
         IN  <<least>> \o SortedInts(S \ {least})

\* int(name) succeeds (names here hold digits and letters only)
IsInt(name) == name # <<>> /\ \A i \in 1..Len(name) : name[i] \in DOMAIN Digit

\* int(name), for a name of digits
RECURSIVE IntOf(_)
IntOf(name) ==
    IF name = <<>> THEN 0
    ELSE 10 * IntOf(SubSeq(name, 1, Len(name) - 1)) + Digit[name[Len(name)]]

report == <<"r", "e", "p", "o", "r", "t">>

\* the names a listed directory may hold
DirNames == {<<"a">>, <<"1", "0">>, <<"2">>, report}

(***************************************************************************)
(* The four scripts and their fixed inputs.                                *)
(***************************************************************************)
Datetime == "plot_datetime_bench"
Duckdb == "plot_duckdb_write_bench"
Sqllog == "plot_sqllog_bench"
Varied == "plot_sqllog_varied"
Scripts == {Datetime, Duckdb, Sqllog, Varied}

\* Path(...) of the results root
RootOf == (Datetime :> "target/criterion/datetime_validation") @@
          (Duckdb :> "target/criterion/duckdb_write_modes") @@
          (Sqllog :> "target/criterion/sqllog_from_file_1m") @@
          (Varied :> "target/criterion")

modes == <<"appender_direct", "in_memory_ctas", "csv_copy">>
sizes == <<10000, 50000, 200000>>
Modes == {modes[i] : i \in 1..Len(modes)}
Sizes == {sizes[i] : i \in 1..Len(sizes)}

GroupList == <<"sqllog_write_file", "sqllog_parse_file">>

(***************************************************************************)
(* The result tree.  A path is absent, a regular file or a directory; a    *)
(* case directory holds up to two result files, base/estimates.json and    *)
(* new/benchmark.json.  A result file is absent or holds one of a few      *)
(* texts, named here by what json.loads makes of them.                     *)
(***************************************************************************)
Absent == "absent"
Garbage == "not json"

PointEstimate(v) == Dict(<< <<"point_estimate", v>> >>)

\* Criterion's estimates.json: mean and median objects, in nanoseconds
DocMedian ==
    Dict(<< <<"mean", PointEstimate(Num(26, 8))>>,
            <<"median", PointEstimate(Num(25, 8))>> >>)
\* a document with a mean only, in microseconds
DocMean == Dict(<< <<"mean", PointEstimate(Num(42, 2))>> >>)
\* a median object without point_estimate beside a usable mean
DocNoPoint ==
    Dict(<< <<"median", Dict(<<>>)>>,
            <<"mean", PointEstimate(Num(42, 2))>> >>)
\* a point estimate that is not a number
DocBadNum == Dict(<< <<"median", PointEstimate(BadStr)>> >>)

RunContents == {Garbage, "median and mean", "mean only", "no point", "bad number"}
FileStates == {Absent} \cup RunContents

\* json.loads(text), for a text that parses
Parse(text) ==
    IF text = "median and mean" THEN DocMedian
    ELSE IF text = "mean only" THEN DocMean
    ELSE IF text = "no point" THEN DocNoPoint
    ELSE DocBadNum

Base == "base/estimates.json"
New == "new/benchmark.json"

NFiles(c) == (IF c.base # Absent THEN 1 ELSE 0) + (IF c.new # Absent THEN 1 ELSE 0)

RECURSIVE SumFiles(_, _)
SumFiles(cases, keys) ==
    IF keys = {} THEN 0
    ELSE LET k == CHOOSE x \in keys : TRUE
         IN  NFiles(cases[k]) + SumFiles(cases, keys \ {k})

\* the states a case directory may be found in, given what was seen
CaseChoices ==
    LET seen == SumFiles(fs.cases, DOMAIN fs.cases)
        room == IF fs.root = "dir" THEN MaxFiles - seen ELSE 0
    IN  {c \in [base : FileStates, new : FileStates] : NFiles(c) <= room}

\* the listings a directory may be found to have
Listings ==
    UNION {[S -> {"file", "dir"}] :
              S \in {X \in SUBSET DirNames : Cardinality(X) <= MaxEntries}}

NoTree == [root |-> "unseen", group |-> "unseen",
           entries |-> <<>>, cases |-> <<>>]

\* Locate without the existence check on the secondary file
LocateUnchecked(c) == IF c.base # Absent THEN Base ELSE New

\* Locate falling back to the secondary file when the primary yields no
\* point estimate
LocateRetry(c) ==
    IF /\ c.base # Absent
       /\ \/ c.new = Absent
          \/ c.base = Garbage
          \/ ExtractEstimate(Parse(c.base)) # None
    THEN Base
    ELSE IF c.new # Absent THEN New
    ELSE "none"

\* p.exists() for the two layouts: the file the locator settles on
Locate(c) ==
    IF c.base # Absent THEN Base
    ELSE IF c.new # Absent THEN New
    ELSE "none"

Content(c, layout) == IF layout = Base THEN c.base ELSE c.new

(***************************************************************************)
(* Shared pieces of a run.                                                 *)
(***************************************************************************)
RootKinds == {"absent", "file", "dir"}

\* RootExists testing a path that is always there
RootExistsAlways(kind) == TRUE

\* root.exists()
RootExists(kind) == kind # "absent"

\* the new values of the variables a loop body assigns
Out(np, nd, nm, nt, nres, ncon, nst, npc, ntodo) ==
    /\ p' = np /\ data' = nd /\ median' = nm /\ t' = nt
    /\ results' = nres /\ console' = ncon
    /\ status' = nst /\ pc' = npc /\ todo' = ntodo

\* an uncaught exception: traceback on stderr, non-zero exit
Crash(np, nd, nm, exc) ==
    Out(np, nd, nm, t, results, Append(console, <<"Traceback", exc>>),
        "fail", "exit", todo)

\* raise SystemExit(msg): msg on stderr, non-zero exit
SystemExit(np, nd, nm, msg) ==
    Out(np, nd, nm, t, results, Append(console, msg), "fail", "exit", todo)

\* what read_text / json.loads raise on a file, or "" when it parses
ReadError(text) ==
    IF text = Absent THEN "FileNotFoundError"
    ELSE IF text = Garbage THEN "JSONDecodeError"
    ELSE ""

Init ==
    /\ script \in Scripts
    /\ fs = NoTree
    /\ pc = "start"
    /\ todo = <<>> /\ groups = <<>>
    /\ p = NoPath /\ data = None /\ median = None /\ t = None
    /\ results = None
    /\ console = <<>>
    /\ out_dir = FALSE
    /\ chart = <<>>
    /\ images = {}
    /\ status = "running"

(***************************************************************************)
(* plot_datetime_bench.py                                                  *)
(***************************************************************************)
\* BenchNames without the exclusion of the report folder
BenchNamesAll(listing) ==
    SortedNames({n \in DOMAIN listing : listing[n] = "dir"})

\* line 10-11: the sub-bench folders, sorted
BenchNames(listing) ==
    SortedNames({n \in DOMAIN listing : listing[n] = "dir" /\ n # report})

\* lines 5-7
DatetimeRoot ==
    /\ script = Datetime /\ pc = "start"
    /\ \E kind \in RootKinds :
         /\ fs' = [fs EXCEPT !.root = kind]
         /\ IF RootExists(kind)
            THEN /\ pc' = "list"
                 /\ UNCHANGED <<console, status>>
            ELSE /\ console' = Append(console,
                        <<"Criterion output directory not found", RootOf[script]>>)
                 /\ status' = "fail"
                 /\ pc' = "exit"
    /\ UNCHANGED <<script, todo, groups, p, data, median, t, results,
                   out_dir, chart, images>>

\* lines 10-13: root.iterdir(), the sort, results = {}
DatetimeList ==
    /\ script = Datetime /\ pc = "list"
    /\ IF fs.root # "dir"
       THEN /\ Crash(p, data, median, "NotADirectoryError")
            /\ UNCHANGED fs
       ELSE \E listing \in Listings :
            /\ fs' = [fs EXCEPT !.entries = listing]
            /\ todo' = BenchNames(listing)
            /\ results' = <<>>
            /\ pc' = "loop"
            /\ UNCHANGED <<p, data, median, t, console, status>>
    /\ UNCHANGED <<script, groups, out_dir, chart, images>>

\* lines 14-43: one pass of the loop body
DatetimeCase ==
    /\ script = Datetime /\ pc = "loop" /\ todo # <<>>
    /\ \E c \in CaseChoices :
         LET name == Head(todo)
             lay  == Locate(c)
             path == <<name, lay>>
             text == Content(c, lay)
             doc  == Parse(text)
             m    == ExtractEstimate(doc)
         IN  /\ fs' = [fs EXCEPT !.cases = (name :> c) @@ @]
             /\ IF lay = "none"
                THEN Out(<<name, New>>, data, median, t, results,
                         Append(console, <<"Missing estimates for", name>>),
                         status, pc, Tail(todo))
                ELSE IF ReadError(text) # ""
                THEN Crash(path, data, median, ReadError(text))
                ELSE IF m = None
                THEN Out(path, doc, m, t, results,
                         Append(console, <<"Could not find median for", name>>),
                         status, pc, Tail(todo))
                ELSE IF ~IsNum(m)
                THEN Crash(path, doc, m, "ValueError")
                ELSE Out(path, doc, m, NormaliseDatetime(m),
                         Append(results, <<name, NormaliseDatetime(m)>>),
                         console, status, pc, Tail(todo))
    /\ UNCHANGED <<script, groups, out_dir, chart, images>>

\* lines 46-47
DatetimeMkdir ==
    /\ script = Datetime /\ pc = "loop" /\ todo = <<>>
    /\ out_dir' = TRUE
    /\ pc' = "plot"
    /\ UNCHANGED <<script, fs, todo, groups, p, data, median, t, results,
                   console, chart, images, status>>

\* lines 48-57: the bar chart of results, saved
DatetimeRender ==
    /\ script = Datetime /\ pc = "plot"
    /\ chart' = <<[names |-> [i \in 1..Len(results) |-> results[i][1]],
                   vals  |-> [i \in 1..Len(results) |-> results[i][2]]]>>
    /\ images' = images \cup {"datetime_validation.png"}
    /\ pc' = "print"
    /\ UNCHANGED <<script, fs, todo, groups, p, data, median, t, results,
                   console, out_dir, status>>

\* line 58, then the normal end of the script
DatetimeWrote ==
    /\ script = Datetime /\ pc = "print"
    /\ console' = Append(console, <<"Wrote", "datetime_validation.png">>)
    /\ status' = "ok"
    /\ pc' = "exit"
    /\ UNCHANGED <<script, fs, todo, groups, p, data, median, t, results,
                   out_dir, chart, images>>

DatetimeNext ==
    \/ DatetimeRoot \/ DatetimeList \/ DatetimeCase
    \/ DatetimeMkdir \/ DatetimeRender \/ DatetimeWrote

(***************************************************************************)
(* plot_duckdb_write_bench.py                                              *)
(***************************************************************************)
\* lines 16-17: for m in modes: for s in sizes, in loop order
ModeSizePairs ==
    [i \in 1..(Len(modes) * Len(sizes)) |->
        <<modes[((i - 1) \div Len(sizes)) + 1],
          sizes[((i - 1) % Len(sizes)) + 1]>>]

\* lines 6-14
DuckdbRoot ==
    /\ script = Duckdb /\ pc = "start"
    /\ \E kind \in RootKinds :
         /\ fs' = [fs EXCEPT !.root = kind]
         /\ IF RootExists(kind)
            THEN /\ pc' = "collect"
                 /\ todo' = ModeSizePairs
                 /\ results' = [m \in Modes |-> <<>>]
                 /\ UNCHANGED <<console, status>>
            ELSE /\ console' = Append(console,
                        <<"Criterion output directory not found", RootOf[script]>>)
                 /\ status' = "fail"
                 /\ pc' = "exit"
                 /\ UNCHANGED <<todo, results>>
    /\ UNCHANGED <<script, groups, p, data, median, t, out_dir, chart, images>>

\* lines 18-44: one pass of the inner loop body
DuckdbCase ==
    /\ script = Duckdb /\ pc = "collect" /\ todo # <<>>
    /\ \E c \in CaseChoices :
         LET m    == Head(todo)[1]
             s    == Head(todo)[2]
             lay  == Locate(c)
             path == <<m, s, lay>>
             text == Content(c, lay)
             doc  == Parse(text)
             est  == ExtractEstimate(doc)
         IN  /\ fs' = [fs EXCEPT !.cases = (<<m, s>> :> c) @@ @]
             /\ IF lay = "none"
                THEN Out(<<m, s, New>>, data, median, t, results,
                         Append(console, <<"Missing file for", m, s>>),
                         status, pc, Tail(todo))
                ELSE IF ReadError(text) # ""
                THEN Crash(path, data, median, ReadError(text))
                ELSE IF est = None
                THEN Out(path, doc, est, t, results,
                         Append(console, <<"Could not find median for", m, s>>),
                         status, pc, Tail(todo))
                ELSE IF ~IsNum(est)
                THEN Crash(path, doc, est, "ValueError")
                ELSE Out(path, doc, est, t,
                         [results EXCEPT ![m] = (s :> est) @@ @],
                         console, status, pc, Tail(todo))
    /\ UNCHANGED <<script, groups, out_dir, chart, images>>

\* lines 47-54: the normalisation pass over every mode's dict
DuckdbNormalise ==
    /\ script = Duckdb /\ pc = "collect" /\ todo = <<>>
    /\ results' = [m \in Modes |-> NormaliseStored(results[m])]
    /\ pc' = "mkdir"
    /\ UNCHANGED <<script, fs, todo, groups, p, data, median, t,
                   console, out_dir, chart, images, status>>

\* lines 57-58
DuckdbMkdir ==
    /\ script = Duckdb /\ pc = "mkdir"
    /\ out_dir' = TRUE
    /\ pc' = "plot"
    /\ UNCHANGED <<script, fs, todo, groups, p, data, median, t, results,
                   console, chart, images, status>>

\* lines 60-62: one mode's line, keys sorted
ModeSeries(m) ==
    LET xs == SortedInts(DOMAIN results[m])
    IN  [label |-> m, xs |-> xs,
         ys |-> [i \in 1..Len(xs) |-> results[m][xs[i]]]]

\* lines 59-72: one line per mode, saved
DuckdbRender ==
    /\ script = Duckdb /\ pc = "plot"
    /\ chart' = [i \in 1..Len(modes) |-> ModeSeries(modes[i])]
    /\ images' = images \cup {"duckdb_write_modes.png"}
    /\ pc' = "print"
    /\ UNCHANGED <<script, fs, todo, groups, p, data, median, t, results,
                   console, out_dir, status>>

\* line 73, then the normal end of the script
DuckdbWrote ==
    /\ script = Duckdb /\ pc = "print"
    /\ console' = Append(console, <<"Wrote", "duckdb_write_modes.png">>)
    /\ status' = "ok"
    /\ pc' = "exit"
    /\ UNCHANGED <<script, fs, todo, groups, p, data, median, t, results,
                   out_dir, chart, images>>

DuckdbNext ==
    \/ DuckdbRoot \/ DuckdbCase \/ DuckdbNormalise
    \/ DuckdbMkdir \/ DuckdbRender \/ DuckdbWrote

(***************************************************************************)
(* plot_sqllog_bench.py                                                    *)
(***************************************************************************)
\* lines 5-7
SqllogRoot ==
    /\ script = Sqllog /\ pc = "start"
    /\ \E kind \in RootKinds :
         /\ fs' = [fs EXCEPT !.root = kind]
         /\ IF RootExists(kind)
            THEN /\ pc' = "locate"
                 /\ UNCHANGED <<console, status>>
            ELSE /\ console' = Append(console,
                        <<"Criterion output directory not found", RootOf[script]>>)
                 /\ status' = "fail"
                 /\ pc' = "exit"
    /\ UNCHANGED <<script, todo, groups, p, data, median, t, results,
                   out_dir, chart, images>>

\* lines 10-36: locate, extract and normalise the single case
SqllogCase ==
    /\ script = Sqllog /\ pc = "locate"
    /\ \E c \in CaseChoices :
         LET lay  == Locate(c)
             path == <<lay>>
             text == Content(c, lay)
             doc  == Parse(text)
             est  == ExtractEstimate(doc)
         IN  /\ fs' = [fs EXCEPT !.cases = (<<>> :> c) @@ @]
             /\ IF lay = "none"
                THEN SystemExit(<<New>>, data, median,
                                <<"No estimates found in", RootOf[script]>>)
                ELSE IF ReadError(text) # ""
                THEN Crash(path, data, median, ReadError(text))
                ELSE IF est = None
                THEN SystemExit(path, doc, est,
                                <<"Could not find median in estimates">>)
                ELSE IF ~IsNum(est)
                THEN Crash(path, doc, est, "ValueError")
                ELSE Out(path, doc, est, NormaliseSqllog(est), results,
                         console, status, "mkdir", todo)
    /\ UNCHANGED <<script, groups, out_dir, chart, images>>

\* lines 38-39
SqllogMkdir ==
    /\ script = Sqllog /\ pc = "mkdir"
    /\ out_dir' = TRUE
    /\ pc' = "plot"
    /\ UNCHANGED <<script, fs, todo, groups, p, data, median, t, results,
                   console, chart, images, status>>

\* lines 40-46: the one-bar chart, saved
SqllogRender ==
    /\ script = Sqllog /\ pc = "plot"
    /\ chart' = <<[names |-> <<"sqllog_from_file_1m">>, vals |-> <<t>>]>>
    /\ images' = images \cup {"sqllog_from_file_1m.png"}
    /\ pc' = "print"
    /\ UNCHANGED <<script, fs, todo, groups, p, data, median, t, results,
                   console, out_dir, status>>

\* line 47, then the normal end of the script
SqllogWrote ==
    /\ script = Sqllog /\ pc = "print"
    /\ console' = Append(console, <<"Wrote", "sqllog_from_file_1m.png">>)
    /\ status' = "ok"
    /\ pc' = "exit"
    /\ UNCHANGED <<script, fs, todo, groups, p, data, median, t, results,
                   out_dir, chart, images>>

SqllogNext == SqllogRoot \/ SqllogCase \/ SqllogMkdir \/ SqllogRender \/ SqllogWrote

(***************************************************************************)
(* plot_sqllog_varied.py                                                   *)
(***************************************************************************)
\* SeriesKey with a one-based fallback position
SeriesKeyOneBased(name, sizes_so_far) ==
    IF IsInt(name) THEN IntOf(name) ELSE Len(sizes_so_far) + 1

\* lines 43-47: the key of a kept case
SeriesKey(name, sizes_so_far) ==
    IF IsInt(name) THEN IntOf(name) ELSE Len(sizes_so_far)

\* lines 5-7
VariedRoot ==
    /\ script = Varied /\ pc = "start"
    /\ \E kind \in RootKinds :
         /\ fs' = [fs EXCEPT !.root = kind]
         /\ IF RootExists(kind)
            THEN /\ pc' = "mkdir"
                 /\ UNCHANGED <<console, status>>
            ELSE /\ console' = Append(console,
                        <<"Criterion output directory not found", RootOf[script]>>)
                 /\ status' = "fail"
                 /\ pc' = "exit"
    /\ UNCHANGED <<script, todo, groups, p, data, median, t, results,
                   out_dir, chart, images>>

\* lines 51-54: the output directory, then the loop over the groups
VariedMkdir ==
    /\ script = Varied /\ pc = "mkdir"
    /\ out_dir' = TRUE
    /\ groups' = GroupList
    /\ pc' = "group"
    /\ UNCHANGED <<script, fs, todo, p, data, median, t, results,
                   console, chart, images, status>>

\* lines 55, 10-16: extract_series is entered for the next group
VariedGroup ==
    /\ script = Varied /\ pc = "group" /\ groups # <<>>
    /\ \E kind \in (IF fs.root = "dir" THEN RootKinds ELSE {"absent"}) :
         IF kind = "absent"
         THEN /\ fs' = [fs EXCEPT !.group = kind, !.entries = <<>>, !.cases = <<>>]
              /\ console' = Append(console, <<"No group", Head(groups)>>)
              /\ groups' = Tail(groups)
              /\ UNCHANGED <<pc, todo, p, data, median, t, results, status>>
         ELSE IF kind = "file"
         THEN /\ fs' = [fs EXCEPT !.group = kind, !.entries = <<>>, !.cases = <<>>]
              /\ Crash(NoPath, None, None, "NotADirectoryError")
              /\ UNCHANGED groups
         ELSE \E listing \in Listings :
              /\ fs' = [fs EXCEPT !.group = kind, !.entries = listing, !.cases = <<>>]
              /\ Out(NoPath, None, None, None, [sizes |-> <<>>, vals |-> <<>>],
                     console, status, "series", SortedNames(DOMAIN listing))
              /\ UNCHANGED groups
    /\ UNCHANGED <<script, out_dir, chart, images>>

\* lines 17-48: one pass of the loop body of extract_series
VariedEntry ==
    /\ script = Varied /\ pc = "series" /\ todo # <<>>
    /\ LET d == Head(todo) IN
       IF fs.entries[d] # "dir"
       THEN /\ todo' = Tail(todo)
            /\ UNCHANGED <<fs, p, data, median, t, results, console, status, pc>>
       ELSE \E c \in CaseChoices :
            LET lay  == Locate(c)
                path == <<d, lay>>
                text == Content(c, lay)
                doc  == Parse(text)
                est  == ExtractEstimate(doc)
            IN  /\ fs' = [fs EXCEPT !.cases = (d :> c) @@ @]
                /\ IF lay = "none"
                   THEN Out(<<d, New>>, data, median, t, results,
                            console, status, pc, Tail(todo))
                   ELSE IF ReadError(text) # ""
                   THEN Crash(path, data, median, ReadError(text))
                   ELSE IF est = None
                   THEN Out(path, doc, est, t, results,
                            console, status, pc, Tail(todo))
                   ELSE IF ~IsNum(est)
                   THEN Crash(path, doc, est, "ValueError")
                   ELSE Out(path, doc, est, NormaliseVaried(est),
                            [sizes |-> Append(results.sizes,
                                              SeriesKey(d, results.sizes)),
                             vals  |-> Append(results.vals, NormaliseVaried(est))],
                            console, status, pc, Tail(todo))
    /\ UNCHANGED <<script, groups, out_dir, chart, images>>

\* lines 49, 56-67: the series is returned (the locals of extract_series
\* end with the call), plotted and saved
VariedRender ==
    /\ script = Varied /\ pc = "series" /\ todo = <<>>
    /\ chart' = <<[label |-> Head(groups), xs |-> results.sizes, ys |-> results.vals]>>
    /\ images' = images \cup {Head(groups)}
    /\ p' = NoPath /\ data' = None /\ median' = None /\ t' = None
    /\ pc' = "print"
    /\ UNCHANGED <<script, fs, todo, groups, results, console, out_dir, status>>

\* lines 68-69: the figure is closed, the path printed; the group's
\* directory is not inspected again, so fs moves on to the next group
VariedWrote ==
    /\ script = Varied /\ pc = "print"
    /\ chart' = <<>>
    /\ console' = Append(console, <<"Wrote", Head(groups)>>)
    /\ groups' = Tail(groups)
    /\ fs' = [fs EXCEPT !.group = "unseen", !.entries = <<>>, !.cases = <<>>]
    /\ pc' = "group"
    /\ UNCHANGED <<script, todo, p, data, median, t, results,
                   out_dir, images, status>>

\* the loop over the groups is over: the normal end of the script
VariedEnd ==
    /\ script = Varied /\ pc = "group" /\ groups = <<>>
    /\ status' = "ok"
    /\ pc' = "exit"
    /\ UNCHANGED <<script, fs, todo, groups, p, data, median, t, results,
                   console, out_dir, chart, images>>

VariedNext ==
    \/ VariedRoot \/ VariedMkdir \/ VariedGroup \/ VariedEntry
    \/ VariedRender \/ VariedWrote \/ VariedEnd

Next == DatetimeNext \/ DuckdbNext \/ SqllogNext \/ VariedNext

Spec == Init /\ [][Next]_vars

(***************************************************************************)
(* The normalisation stage on its own, over a wide range of raw values:    *)
(* the inline normalisation of three scripts, and the store-then-          *)
(* normalise passes of plot_duckdb_write_bench.                            *)
(***************************************************************************)
Mantissas == {-1, 0, 1, 25, 37, 42, 999, 1001, 999999, 1000001}
RawValues == {Num(m, e) : m \in Mantissas, e \in (-MaxExp)..MaxExp}

Idle ==
    /\ fs = NoTree /\ todo = <<>> /\ groups = <<>> /\ p = NoPath
    /\ console = <<>> /\ out_dir = FALSE /\ chart = <<>> /\ images = {}
    /\ status = "running"

InitNorm ==
    /\ script \in Scripts
    /\ median \in RawValues
    /\ pc = "float"
    /\ data = None /\ t = None /\ results = None
    /\ Idle

\* t = float(median), then the if / elif of the script
NormInline ==
    /\ script \in {Datetime, Sqllog, Varied} /\ pc = "float"
    /\ t' = IF script = Datetime THEN NormaliseDatetime(median)
            ELSE IF script = Sqllog THEN NormaliseSqllog(median)
            ELSE NormaliseVaried(median)
    /\ pc' = "stored"
    /\ UNCHANGED <<script, fs, todo, groups, p, data, median, results,
                   console, out_dir, chart, images, status>>

\* plot_duckdb_write_bench.py 44: the raw float is stored
NormStore ==
    /\ script = Duckdb /\ pc = "float"
    /\ results' = [m \in Modes |->
                      IF m = modes[1] THEN (sizes[1] :> median) ELSE <<>>]
    /\ pc' = "collected"
    /\ UNCHANGED <<script, fs, todo, groups, p, data, median, t,
                   console, out_dir, chart, images, status>>

\* plot_duckdb_write_bench.py 47-54: the pass over the stored values
NormPass ==
    /\ script = Duckdb /\ pc = "collected"
    /\ results' = [m \in Modes |-> NormaliseStored(results[m])]
    /\ pc' = "stored"
    /\ UNCHANGED <<script, fs, todo, groups, p, data, median, t,
                   console, out_dir, chart, images, status>>

NextNorm == NormInline \/ NormStore \/ NormPass

SpecNorm == InitNorm /\ [][NextNorm]_vars

(***************************************************************************)
(* The extraction block on its own, over every document of up to MaxKeys   *)
(* top-level keys.                                                         *)
(***************************************************************************)
Keys == {"median", "mean", "slope", "std_dev"}
Vals == {Num(1, 0), Dict(<<>>), PointEstimate(Num(42, 2)),
         PointEstimate(Num(25, 8)), PointEstimate(None)}

KeyOrders ==
    {ks \in UNION {[1..n -> Keys] : n \in 0..MaxKeys} :
        \A i, j \in 1..Len(ks) : i # j => ks[i] # ks[j]}

Docs ==
    {JList} \cup
    UNION {{Dict([i \in 1..Len(ks) |-> <<ks[i], vs[i]>>]) :
               vs \in [1..Len(ks) -> Vals]} : ks \in KeyOrders}

InitExtract ==
    /\ script \in Scripts
    /\ data \in Docs
    /\ pc = "parsed"
    /\ median = None /\ t = None /\ results = None
    /\ Idle

\* median = None, then the if / elif / else of the extraction block
ExtractStep ==
    /\ pc = "parsed"
    /\ median' = ExtractEstimate(data)
    /\ pc' = "extracted"
    /\ UNCHANGED <<script, fs, todo, groups, p, data, t, results,
                   console, out_dir, chart, images, status>>

NextExtract == ExtractStep

SpecExtract == InitExtract /\ [][NextExtract]_vars

(***************************************************************************)
(* Properties.                                                             *)
(***************************************************************************)
\* the file a case is read from: the primary if it exists, else the secondary
FileRead(c) == IF c.base # Absent THEN c.base ELSE c.new

\* the case yields an estimate
Resolved(c) ==
    /\ FileRead(c) \notin {Absent, Garbage}
    /\ ExtractEstimate(Parse(FileRead(c))) # None

\* the case is dropped: no result file, or a document without estimate
Dropped(c) ==
    \/ FileRead(c) = Absent
    \/ FileRead(c) # Garbage /\ ExtractEstimate(Parse(FileRead(c))) = None

\* the file read does not parse, or its estimate is not a number
Broken(c) ==
    \/ FileRead(c) = Garbage
    \/ /\ FileRead(c) # Absent
       /\ ExtractEstimate(Parse(FileRead(c))) # None
       /\ ~IsNum(ExtractEstimate(Parse(FileRead(c))))

WellFormed == \A k \in DOMAIN fs.cases : ~Broken(fs.cases[k])

Ascending(xs) == \A i, j \in 1..Len(xs) : i < j => xs[i] < xs[j]

\* d[k] is a dict holding 'point_estimate'
HasPoint(d, k) ==
    Has(d, k) /\ IsDict(Get(d, k)) /\ Has(Get(d, k), "point_estimate")

\* the estimate by the ordered preference median, mean, first in order
PreferredEstimate(d) ==
    IF ~IsDict(d) THEN None
    ELSE IF HasPoint(d, "median") THEN Get(Get(d, "median"), "point_estimate")
    ELSE IF HasPoint(d, "mean") THEN Get(Get(d, "mean"), "point_estimate")
    ELSE ScanValues(d.items)

\* C1: for every parsed document the extracted estimate is the one the
\* ordered preference gives: median's point_estimate if median is a dict
\* holding one, else mean's likewise, else that of the first top-level
\* value holding one, and None only if there is none.
C1Original == pc = "extracted" => median = PreferredEstimate(data)

\* the value a script ends up with for the raw value median
Stored == IF script = Duckdb THEN results[modes[1]][sizes[1]] ELSE t

\* the script's normaliser applied to the value it produced
Renormalised ==
    IF script = Datetime THEN NormaliseDatetime(Stored)
    ELSE IF script = Sqllog THEN NormaliseSqllog(Stored)
    ELSE IF script = Varied THEN NormaliseVaried(Stored)
    ELSE NormaliseStored((sizes[1] :> Stored))[sizes[1]]

\* C2: in each of the four scripts the stored value of a raw value v is
\* v / 1e9 if v > 1,000,000, else v / 1e6 if v > 1,000, else v; the
\* thresholds are strict, 2,500,000,000 gives 2.5 and 4,200 gives 0.0042.
C2Normalise ==
    pc = "stored" =>
        /\ Gt10(median, 6) => Stored = Div10(median, 9)
        /\ ~Gt10(median, 6) /\ Gt10(median, 3) => Stored = Div10(median, 6)
        /\ ~Gt10(median, 3) => Stored = median
        /\ median = Num(1, 6) => Stored = Num(1, 0)
        /\ median = Num(1, 3) => Stored = Num(1, 3)
        /\ median = Num(1000001, 0) => Stored = Num(1000001, -9)
        /\ median = Num(1001, 0) => Stored = Num(1001, -6)
        /\ median = Num(25, 8) => Stored = Num(25, -1)
        /\ median = Num(42, 2) => Stored = Num(42, -4)

\* exactly 1,000,000 went through the second pass of
\* plot_duckdb_write_bench and came out as 1
C2Witness ==
    /\ script = Duckdb /\ pc = "stored"
    /\ median = Num(1, 6) /\ Stored = Num(1, 0)

\* C3 as claimed: for every raw value the normaliser's output is at most
\* 1000 and is a fixed point of the normaliser.
C3Original ==
    pc = "stored" => ~Gt10(Stored, 3) /\ Renormalised = Stored

\* C3 amended: for every raw value of at most 10^12 the normaliser's
\* output is at most 1000 and is a fixed point of the normaliser.
C3Idempotent ==
    (pc = "stored" /\ ~Gt10(median, 12)) =>
        ~Gt10(Stored, 3) /\ Renormalised = Stored

\* 10^12 nanoseconds became 1000 seconds, which is left alone
C3Witness ==
    /\ pc = "stored" /\ median = Num(1, 12)
    /\ Stored = Num(1, 3) /\ Renormalised = Stored

\* the sub-cases of plot_datetime_bench that yield an estimate
ResolvedBenches ==
    {n \in DOMAIN fs.entries :
        /\ fs.entries[n] = "dir" /\ n # report
        /\ n \in DOMAIN fs.cases /\ Resolved(fs.cases[n])}

\* C4: the series plot_datetime_bench hands to the bar chart holds exactly
\* the resolved sub-cases, each once, in ascending name order, every one
\* with a number; an unresolved sub-case and the report folder are no keys.
C4Series ==
    (script = Datetime /\ chart # <<>>) =>
        LET names == chart[1].names
            vals  == chart[1].vals
        IN  /\ {names[i] : i \in 1..Len(names)} = ResolvedBenches
            /\ \A i, j \in 1..Len(names) : i < j => StrLess(names[i], names[j])
            /\ \A i \in 1..Len(names) : names[i] # report
            /\ Len(vals) = Len(names)
            /\ \A i \in 1..Len(vals) : IsNum(vals[i])

\* two sub-cases were plotted and a third, unresolved one was left out
C4Witness ==
    /\ script = Datetime /\ chart # <<>>
    /\ Len(chart[1].names) = 2
    /\ \E n \in DOMAIN fs.cases : Dropped(fs.cases[n])

\* C5: every plotted swept-parameter series lists its size keys in
\* ascending numeric order: each mode's series of plot_duckdb_write_bench,
\* and the series of extract_series for directories named by integers.
C5Original ==
    /\ (script = Duckdb /\ chart # <<>>) =>
           \A i \in 1..Len(chart) : Ascending(chart[i].xs)
    /\ (script = Varied /\ chart # <<>>
            /\ \A d \in DOMAIN fs.entries : IsInt(d)) =>
           Ascending(chart[1].xs)

GroupDone(g) ==
    \/ g \in images
    \/ \E i \in 1..Len(console) : console[i] = <<"No group", g>>

C7RootMissing ==
    fs.root = "absent" =>
        /\ status = "fail" /\ pc = "exit"
        /\ console = << <<"Criterion output directory not found", RootOf[script]>> >>
        /\ fs.group = "unseen"
        /\ DOMAIN fs.entries = {} /\ DOMAIN fs.cases = {}
        /\ p = NoPath /\ data = None /\ median = None
        /\ ~out_dir /\ images = {} /\ chart = <<>>

\* plot_duckdb_write_bench found its root missing and has exited
C7Witness == script = Duckdb /\ fs.root = "absent" /\ status = "fail"

\* the case directory of the located path p
CaseOf(path) ==
    IF script = Duckdb THEN <<path[1], path[2]>>
    ELSE IF script = Sqllog THEN <<>>
    ELSE path[1]

Reports(line, k) ==
    IF script = Duckdb
    THEN /\ line[1] \in {"Missing file for", "Could not find median for"}
         /\ <<line[2], line[3]>> = k
    ELSE IF script = Sqllog
    THEN line[1] \in {"No estimates found in", "Could not find median in estimates"}
    ELSE /\ line[1] \in {"Missing estimates for", "Could not find median for"}
         /\ line[2] = k

\* C9: every case dropped for lack of a result file or of a point
\* estimate has a console line that identifies it.
C9Original ==
    \A k \in DOMAIN fs.cases :
        Dropped(fs.cases[k]) =>
            \E i \in 1..Len(console) : Reports(console[i], k)

\* the entries of the group in iteration order, and those kept
IterOrder == SortedNames(DOMAIN fs.entries)
IsKept(d) == fs.entries[d] = "dir" /\ Resolved(fs.cases[d])
KeptOrder == SelectSeq(IterOrder, IsKept)

\* zero-based position of d in the iteration over the group's entries
IterPos(d) == (CHOOSE i \in 1..Len(IterOrder) : IterOrder[i] = d) - 1

\* C10 as claimed: a kept case whose name is no integer has as key its
\* position in the iteration over the group's entries.
C10Original ==
    (script = Varied /\ pc = "print") =>
        /\ Len(results.sizes) = Len(KeptOrder)
        /\ \A i \in 1..Len(KeptOrder) :
              ~IsInt(KeptOrder[i]) => results.sizes[i] = IterPos(KeptOrder[i])

\* C10 amended: a resolved case whose name is no integer is kept and has
\* as key the number of cases kept before it in the series.
C10Fallback ==
    (script = Varied /\ pc = "print") =>
        /\ Len(results.sizes) = Len(KeptOrder)
        /\ Len(results.vals) = Len(KeptOrder)
        /\ \A i \in 1..Len(KeptOrder) :
              ~IsInt(KeptOrder[i]) => results.sizes[i] = i - 1

\* a case with a non-integer name was kept after an earlier entry was
\* skipped, with a key that is not its position in the iteration
C10Witness ==
    /\ script = Varied /\ pc = "print"
    /\ \E i \in 1..Len(KeptOrder) :
          /\ ~IsInt(KeptOrder[i])
          /\ IterPos(KeptOrder[i]) # i - 1
          /\ results.sizes[i] = i - 1

====
